---- MODULE Spec2Model ----
(***************************************************************************)
(* Pixlim (src/app/page.tsx, src/lib/image-processing): the collection of  *)
(* image records held in React state, the intake that appends records     *)
(* from a file selection or a drop of files and directories, the batch     *)
(* pipeline compressAllImages, the quality slider, removal and export; and *)
(* the offline worker (public/service-worker.js) with the cache storage.   *)
(*                                                                         *)
(* One action is one JavaScript task: the code between two awaits runs to  *)
(* completion and its queued state updates are applied in order before any *)
(* other handler can run.                                                  *)
(***************************************************************************)
EXTENDS Integers, Sequences, FiniteSets, TLC

VARIABLES images, compressionQuality, isProcessing, intake, batches, now, ops,
          output, worker, caches, fetchEvents

vars == <<images, compressionQuality, isProcessing, intake, batches, now, ops,
         output, worker, caches, fetchEvents>>

(* the state of the page, and the state of the offline worker with the     *)
(* cache storage of the origin                                             *)
pageVars == <<images, compressionQuality, isProcessing, intake, batches, now,
             ops, output>>

workerVars == <<worker, caches, fetchEvents>>

(* ------------------------------ bounds --------------------------------- *)
MaxFiles == 2      \* files offered to one intake
MaxImages == 2     \* records in the collection when an intake may start
MaxBatches == 2    \* compressAllImages runs in flight at once
MaxTime == 1       \* last value of the millisecond clock
MaxOps == 3        \* user work in one run: slider moves, removals, files added
MaxFairOps == 2    \* the same, in the runs checked for progress (FairSpec)
MaxEvents == 2     \* fetch events dispatched to the offline worker

(* --------------------------- program values ---------------------------- *)
InitialQuality == 80
Qualities == {InitialQuality, 50}    \* slider values used as inputs

(* a nullable or optional field holds <<>> when absent, <<v>> when v *)
NULL == <<>>
UNDEFINED == <<>>
Some(v) == <<v>>

FileA == [name |-> "a.jpg", type |-> "image/jpeg", size |-> 9]
FileB == [name |-> "b.png", type |-> "image/png", size |-> 5]
FileT == [name |-> "t.txt", type |-> "text/plain", size |-> 3]
FileSet == {FileA, FileB, FileT}

SeqsUpTo(S, n) == UNION {[1..k -> S] : k \in 0..n}

(* a file dialog returns files of one directory: no two with one name *)
Selections ==
    {s \in SeqsUpTo(FileSet, MaxFiles) :
        \A i, j \in DOMAIN s : i # j => s[i].name # s[j].name}

(* every id that `${file.name}-${Date.now()}` can give *)
AllIds == {<<f.name, t>> : f \in FileSet, t \in 0..MaxTime}

Range(s) == {s[i] : i \in DOMAIN s}

(* file.type.startsWith("image/jpeg") || ... "image/png" || ... "image/webp" *)
IsAccepted(file) == file.type \in {"image/jpeg", "image/png", "image/webp"}

FilterAccepted(files) == SelectSeq(files, IsAccepted)

(* --------------------------- dropped entries --------------------------- *)
(* a FileSystemFileEntry and the File that entry.file(resolve) gives *)
FileEntry(f) ==
    [isFile |-> TRUE, isDirectory |-> FALSE, file |-> Some(f), reads |-> <<>>]

(* a FileSystemDirectoryEntry; reads are the non-empty arrays that         *)
(* successive reader.readEntries calls of one reader give before the empty *)
(* array that ends the listing                                             *)
DirectoryEntry(reads) ==
    [isFile |-> FALSE, isDirectory |-> TRUE, file |-> NULL, reads |-> reads]

(* a DataTransferItem of kind "file" that webkitGetAsEntry resolves *)
EntryItem(entry) == [kind |-> "file", entry |-> Some(entry), file |-> entry.file]

(* a DataTransferItem of kind "file" without a structured entry *)
PlainItem(f) == [kind |-> "file", entry |-> NULL, file |-> Some(f)]

(* a DataTransferItem of kind "string" (dragged text) *)
TextItem == [kind |-> "string", entry |-> NULL, file |-> NULL]

FileEntries == {FileEntry(f) : f \in FileSet}

(* the ways a reader gives a listing: in one read, or in two *)
Splits(listing) ==
    IF listing = <<>> THEN {<<>>}
    ELSE {<<listing>>} \cup
         {<<SubSeq(listing, 1, n), SubSeq(listing, n + 1, Len(listing))>> :
             n \in 1..(Len(listing) - 1)}

(* directories that hold files only *)
FlatDirectories ==
    {DirectoryEntry(reads) :
        reads \in UNION {Splits(l) : l \in SeqsUpTo(FileEntries, MaxFiles)}}

(* directories that hold a directory of files, alone or next to a file *)
NestedDirectories ==
    {DirectoryEntry(reads) :
        reads \in UNION {Splits(l) :
           l \in UNION {{<<sub>>, <<sub, e>>, <<e, sub>>} :
                          sub \in FlatDirectories, e \in FileEntries}}}

(* a drop of files *)
FileDrops ==
    {[i \in DOMAIN fs |-> EntryItem(FileEntry(fs[i]))] :
        fs \in SeqsUpTo(FileSet, MaxFiles)}

(* a drop of a file without a structured entry, or of a file next to       *)
(* dragged text                                                            *)
FallbackDrops ==
    {<<PlainItem(f)>> : f \in FileSet}
      \cup {<<TextItem, EntryItem(FileEntry(f))>> : f \in FileSet}

(* a drop of one directory *)
DirectoryDrops ==
    {<<EntryItem(d)>> : d \in FlatDirectories \cup NestedDirectories}

(* processEntry(entry): the files whose type it tests, in the order of the *)
(* tests; a directory is listed with one call of readEntries               *)
RECURSIVE processEntry(_)
RECURSIVE processEntries(_)
processEntry(entry) ==
    IF entry.isFile THEN <<entry.file[1]>>
    ELSE IF entry.isDirectory
    THEN IF entry.reads = <<>> THEN <<>> ELSE processEntries(Head(entry.reads))
    ELSE <<>>

(* for (const subEntry of entries) await processEntry(subEntry) *)
processEntries(entries) ==
    IF entries = <<>> THEN <<>>
    ELSE processEntry(Head(entries)) \o processEntries(Tail(entries))

(* the loop of handleDrop over droppedItems: the files whose type is       *)
(* tested, by processEntry or by the fallback on item.getAsFile()          *)
RECURSIVE TestedFiles(_)
TestedFiles(items) ==
    IF items = <<>> THEN <<>>
    ELSE LET item == Head(items)
             here == IF item.kind # "file" THEN <<>>
                     ELSE IF item.entry # NULL THEN processEntry(item.entry[1])
                     ELSE IF item.file # NULL THEN <<item.file[1]>>
                     ELSE <<>>
         IN here \o TestedFiles(Tail(items))

RemoveAt(s, k) == [j \in 1..(Len(s) - 1) |-> IF j < k THEN s[j] ELSE s[j + 1]]

(* ------------------------- image-processing lib ------------------------ *)
(* readFileAsDataURL: the data URL of a file or blob *)
DataUrl(x) == [dataUrlOf |-> x]

(* compressImage resolves with { blob, dataUrl }: the blob is the encoding *)
(* of the file at the quality, its size is decided by the encoder.         *)
EncodedBlob(file, quality) ==
    [of |-> file.name, q |-> quality, size |-> 1 + (file.size * quality) \div 100]

(* compressImage rejects with new Error(`Failed to compress image: ...`) *)
EncoderError(file) == [message |-> "Failed to compress image", of |-> file.name]

(* ------------------------------ records -------------------------------- *)
(* processFiles: the record pushed for an accepted file *)
NewImage(file, time, quality) ==
    [id |-> <<file.name, time>>,
     file |-> file,
     originalUrl |-> DataUrl(file),
     originalSize |-> file.size,
     compressedUrl |-> NULL,
     compressedBlob |-> NULL,
     compressedSize |-> NULL,
     status |-> "pending",
     error |-> UNDEFINED,
     quality |-> quality]

IdsOf(imgs) == {imgs[i].id : i \in DOMAIN imgs}

(* --------------------------- compressAllImages ------------------------- *)
(* "Don't re-process images that failed unless quality changes" *)
NeedsRun(img, quality) == ~(img.status = "error" /\ img.quality = quality)

(* setImages(prev => prev.map(i => i.id === img.id ? {...i, status:        *)
(* "compressing", quality} : i)), once for every record the run encodes    *)
MarkCompressing(prev, currentImages, quality) ==
    LET marked == {currentImages[j].id : j \in
                     {j \in DOMAIN currentImages : NeedsRun(currentImages[j], quality)}}
    IN [i \in DOMAIN prev |->
          IF prev[i].id \in marked
          THEN [prev[i] EXCEPT !.status = "compressing", !.quality = quality]
          ELSE prev[i]]

(* CompletedResult with the encoded size written to originalSize instead   *)
(* of compressedSize                                                       *)
CompletedResultOverwritesSize(img, quality) ==
    LET blob == EncodedBlob(img.file, quality)
    IN [img EXCEPT !.compressedUrl = Some(DataUrl(blob)),
                   !.compressedBlob = Some(blob),
                   !.originalSize = blob.size,
                   !.status = "completed",
                   !.quality = quality,
                   !.error = UNDEFINED]

(* the value the map callback returns after compressImage resolved *)
CompletedResult(img, quality) ==
    LET blob == EncodedBlob(img.file, quality)
    IN [img EXCEPT !.compressedUrl = Some(DataUrl(blob)),
                   !.compressedBlob = Some(blob),
                   !.compressedSize = Some(blob.size),
                   !.status = "completed",
                   !.quality = quality,
                   !.error = UNDEFINED]

(* ErrorResult without the three fields it sets to null: the spread of img *)
(* keeps the payload of an earlier success                                 *)
ErrorResultKeepsPayload(img, quality) ==
    [img EXCEPT !.status = "error",
                !.error = Some(EncoderError(img.file).message),
                !.quality = quality]

(* the value the map callback returns from its catch block *)
ErrorResult(img, quality) ==
    [img EXCEPT !.compressedUrl = NULL,
                !.compressedBlob = NULL,
                !.compressedSize = NULL,
                !.status = "error",
                !.error = Some(EncoderError(img.file).message),
                !.quality = quality]

(* one run of compressAllImages in flight: its arguments, the state of the *)
(* promise of every record, and the caller that awaits it                  *)
NewBatch(quality, currentImages, owner) ==
    [quality |-> quality,
     imgs |-> currentImages,
     res |-> [i \in DOMAIN currentImages |->
                IF NeedsRun(currentImages[i], quality) THEN "wait" ELSE "skip"],
     owner |-> owner]

AllResolved(b) == \A i \in DOMAIN b.res : b.res[i] # "wait"

(* UpdatedImages with a map callback that, when compressImage rejects,     *)
(* returns the record as it was passed in                                  *)
UpdatedImagesErrorUnchanged(b) ==
    [i \in DOMAIN b.imgs |->
       CASE b.res[i] = "ok" -> CompletedResult(b.imgs[i], b.quality)
         [] OTHER -> b.imgs[i]]

(* updatedImages: what Promise.all resolves to *)
UpdatedImages(b) ==
    [i \in DOMAIN b.imgs |->
       CASE b.res[i] = "ok" -> CompletedResult(b.imgs[i], b.quality)
         [] b.res[i] = "err" -> ErrorResult(b.imgs[i], b.quality)
         [] OTHER -> b.imgs[i]]

(* the synchronous part of compressAllImages(quality, currentImages),      *)
(* called when the collection is prev: every record to encode is marked    *)
(* and its encoder call started; a run with nothing to encode resolves in  *)
(* the same task and replaces the collection at once.                      *)
compressAllImages(quality, currentImages, prev, owner) ==
    LET b == NewBatch(quality, currentImages, owner)
    IN IF AllResolved(b)
       THEN /\ images' = UpdatedImages(b)
            /\ batches' = batches
            /\ isProcessing' = IF owner = "intake" THEN FALSE ELSE isProcessing
       ELSE /\ images' = MarkCompressing(prev, currentImages, quality)
            /\ batches' = Append(batches, b)
            /\ isProcessing' = IF owner = "intake" THEN TRUE ELSE isProcessing

(* EncoderDone with each outcome written to the collection as soon as its  *)
(* own promise settles, instead of after Promise.all                       *)
EncoderDoneEager(k, i, o) ==
    /\ k \in DOMAIN batches
    /\ i \in DOMAIN batches[k].res
    /\ batches[k].res[i] = "wait"
    /\ LET b == [batches[k] EXCEPT !.res[i] = o]
       IN IF AllResolved(b)
          THEN /\ images' = UpdatedImages(b)
               /\ batches' = RemoveAt(batches, k)
               /\ isProcessing' = IF b.owner = "intake" THEN FALSE ELSE isProcessing
          ELSE /\ batches' = [batches EXCEPT ![k] = b]
               /\ images' = [j \in DOMAIN images |->
                               IF images[j].id = b.imgs[i].id
                               THEN UpdatedImages(b)[i] ELSE images[j]]
               /\ UNCHANGED isProcessing
    /\ UNCHANGED <<compressionQuality, intake, now, ops>>
    /\ output' = NULL
    /\ UNCHANGED workerVars

(* EncoderDone without the catch block of the map callback: a rejected     *)
(* compressImage rejects Promise.all, setImages(updatedImages) is skipped  *)
EncoderDoneReject(k, i, o) ==
    /\ k \in DOMAIN batches
    /\ i \in DOMAIN batches[k].res
    /\ batches[k].res[i] = "wait"
    /\ LET b == [batches[k] EXCEPT !.res[i] = o]
       IN IF o = "err"
          THEN /\ batches' = RemoveAt(batches, k)
               /\ UNCHANGED <<images, isProcessing>>
          ELSE IF AllResolved(b)
          THEN /\ images' = UpdatedImages(b)
               /\ batches' = RemoveAt(batches, k)
               /\ isProcessing' = IF b.owner = "intake" THEN FALSE ELSE isProcessing
          ELSE /\ batches' = [batches EXCEPT ![k] = b]
               /\ UNCHANGED <<images, isProcessing>>
    /\ UNCHANGED <<compressionQuality, intake, now, ops>>
    /\ output' = NULL
    /\ UNCHANGED workerVars

(* compressImage of record i of run k settles (o = "ok": resolved, "err":  *)
(* rejected and caught); when it was the last one, Promise.all resolves    *)
(* and setImages(updatedImages) replaces the collection; the intake that   *)
(* awaited the run then clears isProcessing.                               *)
EncoderDone(k, i, o) ==
    /\ k \in DOMAIN batches
    /\ i \in DOMAIN batches[k].res
    /\ batches[k].res[i] = "wait"
    /\ LET b == [batches[k] EXCEPT !.res[i] = o]
       IN IF AllResolved(b)
          THEN /\ images' = UpdatedImages(b)
               /\ batches' = RemoveAt(batches, k)
               /\ isProcessing' = IF b.owner = "intake" THEN FALSE ELSE isProcessing
          ELSE /\ batches' = [batches EXCEPT ![k] = b]
               /\ UNCHANGED <<images, isProcessing>>
    /\ UNCHANGED <<compressionQuality, intake, now, ops>>
    /\ output' = NULL
    /\ UNCHANGED workerVars

(* ------------------------------- intake -------------------------------- *)
(* the intake in progress: where its handler is suspended, the accepted    *)
(* files not yet read, the records built so far, and the images and        *)
(* compressionQuality of the render in which the handler was created       *)
IdleIntake ==
    [pc |-> "idle", items |-> <<>>, files |-> <<>>, newImages |-> <<>>,
     images |-> <<>>, quality |-> InitialQuality]

(* every record that is in the collection or may be put back into it by    *)
(* the swap of a run in flight                                             *)
KnownIds == IdsOf(images) \cup UNION {IdsOf(batches[k].imgs) : k \in DOMAIN batches}

(* a drop or a file selection is a user gesture: it comes more than a      *)
(* millisecond after the last record was created, so Date.now() has moved  *)
(* past every id in use                                                    *)
ClockAtGesture == IF \E id \in KnownIds : id[2] = now THEN now + 1 ELSE now

(* what a gesture takes from the budget MaxOps: one per accepted file, one *)
(* for a gesture without any                                               *)
GestureCost(accepted) == IF accepted = <<>> THEN 1 ELSE Len(accepted)

(* the drop zone takes a gesture only while isProcessing is false          *)
(* (pointer-events-none)                                                   *)
CanStartIntake(accepted) ==
    /\ ~isProcessing
    /\ intake.pc = "idle"
    /\ ClockAtGesture <= MaxTime
    /\ Len(batches) < MaxBatches
    /\ Len(images) + Len(accepted) <= MaxImages
    /\ ops + GestureCost(accepted) <= MaxOps

(* the end of processFiles: setImages(prev => [...prev, ...newImages]),    *)
(* then compressAllImages(compressionQuality, [...images, ...newImages])   *)
(* with the images and compressionQuality of the handler's closure         *)
processFilesTail(newImages, closureImages, closureQuality) ==
    /\ compressAllImages(closureQuality, closureImages \o newImages,
                         images \o newImages, "intake")
    /\ intake' = IdleIntake

(* processFiles(newFiles) up to its first await: with no file to read it   *)
(* reaches its end in the same task                                        *)
processFiles(newFiles, closureImages, closureQuality) ==
    IF newFiles = <<>>
    THEN processFilesTail(<<>>, closureImages, closureQuality)
    ELSE /\ intake' = [pc |-> "reading", items |-> <<>>, files |-> newFiles,
                       newImages |-> <<>>, images |-> closureImages,
                       quality |-> closureQuality]
         /\ isProcessing' = TRUE
         /\ UNCHANGED <<images, batches>>

(* handleFileSelect: setIsProcessing(true), filter the selection, then     *)
(* processFiles up to its first await                                      *)
handleFileSelect(files) ==
    /\ CanStartIntake(FilterAccepted(files))
    /\ processFiles(FilterAccepted(files), images, compressionQuality)
    /\ now' = ClockAtGesture
    /\ ops' = ops + GestureCost(FilterAccepted(files))
    /\ UNCHANGED compressionQuality
    /\ output' = NULL
    /\ UNCHANGED workerVars

(* handleDrop: setIsProcessing(true), then processEntry of the first       *)
(* dropped entry awaits its file or its listing; a drop without items goes *)
(* straight on to processFiles. The entries touch nothing but the          *)
(* handler's local files array, which holds the tested files that pass the *)
(* type test: the intake keeps the dropped items and that array as it will *)
(* be once every entry has resolved.                                       *)
handleDrop(items) ==
    /\ CanStartIntake(FilterAccepted(TestedFiles(items)))
    /\ IF items = <<>>
       THEN processFiles(<<>>, images, compressionQuality)
       ELSE /\ intake' = [pc |-> "collecting", items |-> items,
                          files |-> FilterAccepted(TestedFiles(items)),
                          newImages |-> <<>>, images |-> images,
                          quality |-> compressionQuality]
            /\ isProcessing' = TRUE
            /\ UNCHANGED <<images, batches>>
    /\ now' = ClockAtGesture
    /\ ops' = ops + GestureCost(FilterAccepted(TestedFiles(items)))
    /\ UNCHANGED compressionQuality
    /\ output' = NULL
    /\ UNCHANGED workerVars

(* the file of the last dropped entry arrived: the loop over the dropped   *)
(* items ends and processFiles(files) starts                               *)
EntriesDone ==
    /\ intake.pc = "collecting"
    /\ processFiles(intake.files, intake.images, intake.quality)
    /\ UNCHANGED <<compressionQuality, now, ops>>
    /\ output' = NULL
    /\ UNCHANGED workerVars

(* readFileAsDataURL of the next file resolved, dt milliseconds after the  *)
(* clock was last read: its record is pushed with id                       *)
(* `${file.name}-${Date.now()}`; after the last file processFiles goes on  *)
(* to its end                                                              *)
ReadFileDone(dt) ==
    /\ intake.pc = "reading"
    /\ now + dt <= MaxTime
    /\ now' = now + dt
    /\ LET file == Head(intake.files)
           newImages == Append(intake.newImages,
                               NewImage(file, now + dt, intake.quality))
       IN IF Tail(intake.files) = <<>>
          THEN /\ Len(images) + Len(newImages) <= MaxImages
               /\ processFilesTail(newImages, intake.images, intake.quality)
          ELSE /\ intake' = [intake EXCEPT !.files = Tail(intake.files),
                                           !.newImages = newImages]
               /\ UNCHANGED <<images, batches, isProcessing>>
    /\ UNCHANGED <<compressionQuality, ops>>
    /\ output' = NULL
    /\ UNCHANGED workerVars

(* readFileAsDataURL rejected: processFiles and the handler reject, so     *)
(* nothing is appended and setIsProcessing(false) is never reached         *)
ReadFileFail ==
    /\ intake.pc = "reading"
    /\ intake' = [IdleIntake EXCEPT !.pc = "failed"]
    /\ UNCHANGED <<images, compressionQuality, isProcessing, batches, now, ops>>
    /\ output' = NULL
    /\ UNCHANGED workerVars

(* ------------------------- quality and removal ------------------------- *)
(* the slider (rendered while images.length > 0) sets compressionQuality;  *)
(* the effect on [compressionQuality] then runs the pipeline over the      *)
(* images of that render                                                   *)
QualityChange(q) ==
    /\ Len(images) > 0
    /\ q # compressionQuality
    /\ Len(batches) + (IF intake.pc \in {"collecting", "reading"} THEN 1 ELSE 0)
          < MaxBatches
    /\ compressionQuality' = q
    /\ compressAllImages(q, images, images, "effect")
    /\ ops < MaxOps
    /\ ops' = ops + 1
    /\ UNCHANGED <<intake, now>>
    /\ output' = NULL
    /\ UNCHANGED workerVars

handleRemoveImage(id) ==
    /\ id \in IdsOf(images)
    /\ images' = SelectSeq(images, LAMBDA img : img.id # id)
    /\ ops < MaxOps
    /\ ops' = ops + 1
    /\ UNCHANGED <<compressionQuality, isProcessing, intake, batches, now>>
    /\ output' = NULL
    /\ UNCHANGED workerVars

(* ------------------------------- export -------------------------------- *)
(* the characters of the file names in use *)
Chars(name) ==
    CASE name = "a.jpg" -> <<"a", ".", "j", "p", "g">>
      [] name = "b.png" -> <<"b", ".", "p", "n", "g">>
      [] name = "t.txt" -> <<"t", ".", "t", "x", "t">>

(* name.replace(/\.[^/.]+$/, ""): the name without a last dot that is      *)
(* followed, up to the end, by one or more characters other than / and .   *)
StripExtension(chars) ==
    LET dots == {p \in DOMAIN chars :
                    /\ chars[p] = "."
                    /\ p < Len(chars)
                    /\ \A r \in (p + 1)..Len(chars) : chars[r] \notin {"/", "."}}
    IN IF dots = {} THEN chars
       ELSE SubSeq(chars, 1, (CHOOSE p \in dots : TRUE) - 1)

getFileExtension(mimeType) ==
    CASE mimeType = "image/jpeg" -> "jpg"
      [] mimeType = "image/png" -> "png"
      [] mimeType = "image/webp" -> "webp"
      [] OTHER -> "bin"

ZipName == <<"LitePress_Compressed_Images", ".", "zip">>

(* zip.file(name, blob): adds the entry, or replaces the entry that has    *)
(* this name already                                                       *)
ZipFile(zip, name, blob) ==
    IF \E i \in DOMAIN zip : zip[i].name = name
    THEN [i \in DOMAIN zip |->
            IF zip[i].name = name THEN [name |-> name, blob |-> blob] ELSE zip[i]]
    ELSE Append(zip, [name |-> name, blob |-> blob])

RECURSIVE ZipAll(_, _)
ZipAll(zip, files) ==
    IF files = <<>> THEN zip
    ELSE ZipAll(ZipFile(zip, Head(files).name, Head(files).blob), Tail(files))

(* createZip(files): the blob of the archive with its entries *)
createZip(files) == [zip |-> ZipAll(<<>>, files)]

(* a.download = name; a.href = URL.createObjectURL(content); a.click() *)
Download(name, content) == [kind |-> "download", name |-> name, content |-> content]

(* what ImageCard.handleDownload offers for its image *)
CardDownload(image) ==
    Download(<<"compressed_", StripExtension(Chars(image.file.name)), ".",
               getFileExtension(image.file.type)>>,
             image.compressedBlob[1])

(* ImageCard.handleDownload of the card of record m; its button is         *)
(* disabled unless the record is completed                                 *)
handleDownload(m) ==
    /\ m \in DOMAIN images
    /\ images[m].status = "completed"
    /\ output' = IF images[m].compressedBlob # NULL
                 THEN Some(CardDownload(images[m])) ELSE NULL
    /\ UNCHANGED <<images, compressionQuality, isProcessing, intake, batches,
                   now, ops>>
    /\ UNCHANGED workerVars

(* img.status === "completed" && img.compressedBlob *)
IsExportable(img) == img.status = "completed" /\ img.compressedBlob # NULL

(* handleDownloadAll without its branch for a single completed record:    *)
(* whatever is completed goes into an archive                              *)
handleDownloadAllAlwaysZip(o) ==
    /\ Len(images) > 0
    /\ \E m \in DOMAIN images : images[m].status = "completed"
    /\ LET completedImages == SelectSeq(images, IsExportable)
       IN output' =
            IF Len(completedImages) = 0 THEN NULL
            ELSE LET filesToZip ==
                       [i \in DOMAIN completedImages |->
                          [name |-> <<"compressed_",
                                      StripExtension(Chars(completedImages[i].file.name)),
                                      ".",
                                      getFileExtension(completedImages[i].file.type)>>,
                           blob |-> completedImages[i].compressedBlob[1]]]
                 IN IF o = "ok"
                    THEN Some(Download(ZipName, createZip(filesToZip)))
                    ELSE Some([kind |-> "alert",
                               message |-> "Failed to create ZIP file."])
    /\ UNCHANGED <<images, compressionQuality, isProcessing, intake, batches,
                   now, ops>>
    /\ UNCHANGED workerVars

(* handleDownloadAll (its button is in the settings card, rendered while   *)
(* images.length > 0, and disabled while no record is completed); o is the *)
(* outcome of createZip: "ok" resolved, "err" rejected                     *)
handleDownloadAll(o) ==
    /\ Len(images) > 0
    /\ \E m \in DOMAIN images : images[m].status = "completed"
    /\ LET completedImages == SelectSeq(images, IsExportable)
       IN output' =
            IF Len(completedImages) = 0 THEN NULL
            ELSE IF Len(completedImages) = 1
            THEN LET img == completedImages[1]
                 IN Some(Download(<<"compressed_",
                                    StripExtension(Chars(img.file.name)), ".",
                                    getFileExtension(img.file.type)>>,
                                  img.compressedBlob[1]))
            ELSE LET filesToZip ==
                       [i \in DOMAIN completedImages |->
                          [name |-> <<"compressed_",
                                      StripExtension(Chars(completedImages[i].file.name)),
                                      ".",
                                      getFileExtension(completedImages[i].file.type)>>,
                           blob |-> completedImages[i].compressedBlob[1]]]
                 IN IF o = "ok"
                    THEN Some(Download(ZipName, createZip(filesToZip)))
                    ELSE Some([kind |-> "alert",
                               message |-> "Failed to create ZIP file."])
    /\ UNCHANGED <<images, compressionQuality, isProcessing, intake, batches,
                   now, ops>>
    /\ UNCHANGED workerVars

(* ---------------------------- offline worker --------------------------- *)
CACHE_NAME == "litepress-cache-v1"

urlsToCache == <<"/", "/index.html">>

(* the name of a cache that an earlier version of the worker left behind *)
EarlierCacheName == "litepress-cache-v0"

Request(url, method) == [url |-> url, method |-> method]

Response(status, type, body) == [status |-> status, type |-> type, body |-> body]

(* the URLs of the page's own origin and one of another origin *)
SameOriginUrls == {"/", "/index.html", "/logo.png"}

CrossOriginUrl == "https://fonts.example/font.css"

(* the requests of the page: its document, an asset, a request that is not *)
(* a GET, and a resource of another origin                                 *)
Requests ==
    {Request("/", "GET"), Request("/logo.png", "GET"), Request("/", "POST"),
     Request(CrossOriginUrl, "GET")}

(* what the network answers to a same-origin request (type basic): the     *)
(* resource in one of two versions, or a 404; and to a cross-origin        *)
(* request: the resource read with CORS, or an opaque response             *)
NetworkResponses(url) ==
    IF url \in SameOriginUrls
    THEN {Response(200, "basic", "v1"), Response(200, "basic", "v2"),
          Response(404, "basic", "none")}
    ELSE {Response(200, "cors", "v1"), Response(0, "opaque", "none")}

AllNetworkResponses ==
    UNION {NetworkResponses(url) : url \in SameOriginUrls \cup {CrossOriginUrl}}

(* what respondWith gives the page when its promise rejects *)
NetworkError == Response(0, "error", "none")

(* the cache storage a worker may find when it is registered: nothing, or  *)
(* the cache of an earlier version with the document in it                 *)
EarlierCaches ==
    {<<>>,
     <<[name |-> EarlierCacheName,
        entries |-> <<[request |-> Request("/", "GET"),
                       response |-> Response(200, "basic", "v1")]>>]>>}

(* the Cache API matches a request by its URL, and only a GET request *)
RequestMatches(cached, request) ==
    request.method = "GET" /\ cached.url = request.url

FirstOf(S) == CHOOSE i \in S : \A j \in S : i <= j

(* cache.match(request): the response of the first matching entry *)
cacheMatch(entries, request) ==
    LET hits == {i \in DOMAIN entries : RequestMatches(entries[i].request, request)}
    IN IF hits = {} THEN UNDEFINED ELSE Some(entries[FirstOf(hits)].response)

(* caches.match(request): cache.match over the caches of the storage in    *)
(* the order of their creation                                             *)
cachesMatch(storage, request) ==
    LET hits == {k \in DOMAIN storage :
                    cacheMatch(storage[k].entries, request) # UNDEFINED}
    IN IF hits = {} THEN UNDEFINED
       ELSE cacheMatch(storage[FirstOf(hits)].entries, request)

(* caches.open(name): the cache of this name, created when there is none *)
cachesOpen(storage, name) ==
    IF \E k \in DOMAIN storage : storage[k].name = name THEN storage
    ELSE Append(storage, [name |-> name, entries |-> <<>>])

(* cache.put(request, response): replaces the entry that matches the       *)
(* request; rejects with a TypeError for a request that is not a GET       *)
cachePut(entries, request, response) ==
    IF request.method # "GET" THEN entries
    ELSE Append(SelectSeq(entries,
                          LAMBDA en : ~RequestMatches(en.request, request)),
                [request |-> request, response |-> response])

(* caches.open(name).then(cache => cache.put(request, response)) *)
cachesPut(storage, name, request, response) ==
    LET opened == cachesOpen(storage, name)
    IN [k \in DOMAIN opened |->
          IF opened[k].name = name
          THEN [opened[k] EXCEPT
                  !.entries = cachePut(opened[k].entries, request, response)]
          ELSE opened[k]]

RECURSIVE cacheAddAll(_, _, _)
cacheAddAll(storage, urls, responses) ==
    IF urls = <<>> THEN storage
    ELSE cacheAddAll(cachesPut(storage, CACHE_NAME, Request(Head(urls), "GET"),
                               Head(responses)),
                     Tail(urls), Tail(responses))

(* response.ok *)
IsOk(response) == response.status >= 200 /\ response.status <= 299

(* the install listener: caches.open(CACHE_NAME), then cache.addAll, which *)
(* fetches every url of urlsToCache and stores the responses, or rejects   *)
(* and stores none when one of them is not ok; the worker is then          *)
(* discarded                                                               *)
install(responses) ==
    /\ worker = "installing"
    /\ IF \A i \in DOMAIN responses : IsOk(responses[i])
       THEN /\ caches' = cacheAddAll(cachesOpen(caches, CACHE_NAME),
                                     urlsToCache, responses)
            /\ worker' = "installed"
       ELSE /\ caches' = cachesOpen(caches, CACHE_NAME)
            /\ worker' = "redundant"
    /\ UNCHANGED fetchEvents
    /\ UNCHANGED pageVars

(* the activate listener: caches.delete of every cache whose name is not   *)
(* in cacheWhitelist; no fetch event is dispatched before waitUntil ends   *)
activate ==
    /\ worker = "installed"
    /\ LET cacheWhitelist == {CACHE_NAME}
       IN caches' = SelectSeq(caches, LAMBDA c : c.name \in cacheWhitelist)
    /\ worker' = "activated"
    /\ UNCHANGED fetchEvents
    /\ UNCHANGED pageVars

(* a fetch event is dispatched: the listener calls event.respondWith with  *)
(* the promise of caches.match(event.request)                              *)
FetchEvent(request) ==
    /\ worker = "activated"
    /\ Len(fetchEvents) < MaxEvents
    /\ fetchEvents' = Append(fetchEvents,
                             [request |-> request, pc |-> "matching",
                              response |-> NULL, network |-> FALSE,
                              responseToCache |-> NULL])
    /\ UNCHANGED <<worker, caches>>
    /\ UNCHANGED pageVars

(* MatchDone that goes to the network first and does not look at the       *)
(* result of caches.match                                                  *)
MatchDoneNetworkFirst(e) ==
    /\ e \in DOMAIN fetchEvents
    /\ fetchEvents[e].pc = "matching"
    /\ fetchEvents' = [fetchEvents EXCEPT ![e].pc = "fetching",
                                          ![e].network = TRUE]
    /\ UNCHANGED <<worker, caches>>
    /\ UNCHANGED pageVars

(* caches.match of event e resolved: a response is returned to respondWith *)
(* ("Cache hit"), undefined starts fetch(event.request)                    *)
MatchDone(e) ==
    /\ e \in DOMAIN fetchEvents
    /\ fetchEvents[e].pc = "matching"
    /\ LET response == cachesMatch(caches, fetchEvents[e].request)
       IN IF response # UNDEFINED
          THEN fetchEvents' = [fetchEvents EXCEPT ![e].pc = "done",
                                                  ![e].response = response]
          ELSE fetchEvents' = [fetchEvents EXCEPT ![e].pc = "fetching",
                                                  ![e].network = TRUE]
    /\ UNCHANGED <<worker, caches>>
    /\ UNCHANGED pageVars

(* response.status !== 200 || response.type !== "basic" *)
IsNotCacheable(response) == response.status # 200 \/ response.type # "basic"

(* fetch(event.request) of event e resolved with response: it is returned  *)
(* to respondWith; a clone of a response with status 200 and type basic is *)
(* kept for the cache                                                      *)
NetworkDone(e, response) ==
    /\ e \in DOMAIN fetchEvents
    /\ fetchEvents[e].pc = "fetching"
    /\ response \in NetworkResponses(fetchEvents[e].request.url)
    /\ fetchEvents' =
          [fetchEvents EXCEPT
             ![e].pc = "done",
             ![e].response = Some(response),
             ![e].responseToCache =
                 IF IsNotCacheable(response) THEN NULL ELSE Some(response)]
    /\ UNCHANGED <<worker, caches>>
    /\ UNCHANGED pageVars

(* fetch(event.request) of event e rejected (no connection): the promise   *)
(* given to respondWith rejects and the page gets a network error          *)
NetworkFail(e) ==
    /\ e \in DOMAIN fetchEvents
    /\ fetchEvents[e].pc = "fetching"
    /\ fetchEvents' = [fetchEvents EXCEPT ![e].pc = "done",
                                          ![e].response = Some(NetworkError)]
    /\ UNCHANGED <<worker, caches>>
    /\ UNCHANGED pageVars

(* caches.open(CACHE_NAME).then(cache => cache.put(event.request,          *)
(* responseToCache)) of event e, which nothing awaits                      *)
CachePut(e) ==
    /\ e \in DOMAIN fetchEvents
    /\ fetchEvents[e].responseToCache # NULL
    /\ caches' = cachesPut(caches, CACHE_NAME, fetchEvents[e].request,
                           fetchEvents[e].responseToCache[1])
    /\ fetchEvents' = [fetchEvents EXCEPT ![e].responseToCache = NULL]
    /\ UNCHANGED worker
    /\ UNCHANGED pageVars

(* ---------------------------- specification ---------------------------- *)
Init ==
    /\ images = <<>>
    /\ compressionQuality = InitialQuality
    /\ isProcessing = FALSE
    /\ intake = IdleIntake
    /\ batches = <<>>
    /\ now = 0
    /\ ops = 0
    /\ output = NULL
    /\ worker = "installing"
    /\ caches = <<>>
    /\ fetchEvents = <<>>

Next ==
    \/ \E files \in Selections : handleFileSelect(files)
    \/ \E items \in FileDrops : handleDrop(items)
    \/ EntriesDone
    \/ \E dt \in 0..1 : ReadFileDone(dt)
    \/ ReadFileFail
    \/ \E k \in 1..MaxBatches, i \in 1..MaxImages, o \in {"ok", "err"} :
          EncoderDone(k, i, o)
    \/ \E q \in Qualities : QualityChange(q)
    \/ \E id \in AllIds : handleRemoveImage(id)
    \/ \E m \in 1..MaxImages : handleDownload(m)
    \/ \E o \in {"ok", "err"} : handleDownloadAll(o)

Spec == Init /\ [][Next]_vars

(* every call of compressImage settles: it resolves or it rejects *)
EncoderSettles ==
    \E k \in 1..MaxBatches, i \in 1..MaxImages, o \in {"ok", "err"} :
        EncoderDone(k, i, o)

(* the runs with at most MaxFairOps of user work *)
FairNext ==
    \/ \E files \in Selections : handleFileSelect(files) /\ ops' <= MaxFairOps
    \/ \E items \in FileDrops : handleDrop(items) /\ ops' <= MaxFairOps
    \/ EntriesDone
    \/ \E dt \in 0..1 : ReadFileDone(dt)
    \/ ReadFileFail
    \/ EncoderSettles
    \/ \E q \in Qualities : QualityChange(q) /\ ops' <= MaxFairOps
    \/ \E id \in AllIds : handleRemoveImage(id) /\ ops' <= MaxFairOps
    \/ \E m \in 1..MaxImages : handleDownload(m)
    \/ \E o \in {"ok", "err"} : handleDownloadAll(o)

FairSpec == Init /\ [][FairNext]_vars /\ WF_vars(EncoderSettles)

(* every call of readFileAsDataURL settles: onload or onerror fires *)
ReadSettles == (\E dt \in 0..1 : ReadFileDone(dt)) \/ ReadFileFail

(* the runs of FairSpec in which, besides the encoder calls, the callbacks *)
(* of the dropped entries and the file reads of an intake all arrive       *)
IntakeSpec ==
    /\ Init
    /\ [][FairNext]_vars
    /\ WF_vars(EncoderSettles)
    /\ WF_vars(EntriesDone)
    /\ WF_vars(ReadSettles)

(* drops of every kind, followed up to the end of their intake *)
DropNext ==
    \/ \E items \in FileDrops \cup FallbackDrops \cup DirectoryDrops :
          handleDrop(items)
    \/ EntriesDone
    \/ \E dt \in 0..1 : ReadFileDone(dt)
    \/ ReadFileFail
    \/ \E k \in 1..MaxBatches, i \in 1..MaxImages, o \in {"ok", "err"} :
          EncoderDone(k, i, o)

DropSpec == Init /\ [][DropNext]_vars

(* the offline worker from its registration on: the page is as it is after *)
(* construction, the cache storage as an earlier version may have left it  *)
WorkerInit ==
    /\ images = <<>>
    /\ compressionQuality = InitialQuality
    /\ isProcessing = FALSE
    /\ intake = IdleIntake
    /\ batches = <<>>
    /\ now = 0
    /\ ops = 0
    /\ output = NULL
    /\ worker = "installing"
    /\ caches \in EarlierCaches
    /\ fetchEvents = <<>>

WorkerNext ==
    \/ \E r1 \in NetworkResponses(urlsToCache[1]),
          r2 \in NetworkResponses(urlsToCache[2]) : install(<<r1, r2>>)
    \/ activate
    \/ \E request \in Requests : FetchEvent(request)
    \/ \E e \in 1..MaxEvents : MatchDone(e)
    \/ \E e \in 1..MaxEvents, response \in AllNetworkResponses :
          NetworkDone(e, response)
    \/ \E e \in 1..MaxEvents : NetworkFail(e)
    \/ \E e \in 1..MaxEvents : CachePut(e)

WorkerSpec == WorkerInit /\ [][WorkerNext]_vars

(* ------------------------- shapes of single steps ---------------------- *)
WithoutId(imgs, id) == SelectSeq(imgs, LAMBDA img : img.id # id)

(* the step is handleRemoveImage(id) for some id of the collection: a      *)
(* gesture that leaves the slider and the intake alone and filters the     *)
(* collection by an id                                                     *)
RemoveStep ==
    /\ ops' = ops + 1
    /\ intake' = intake
    /\ compressionQuality' = compressionQuality
    /\ \E id \in IdsOf(images) : images' = WithoutId(images, id)

(* the step settles the last waiting record of run k and swaps *)
SwapOf(k) ==
    \E i \in DOMAIN batches[k].res, o \in {"ok", "err"} :
       LET b == [batches[k] EXCEPT !.res[i] = o]
       IN /\ batches[k].res[i] = "wait"
          /\ AllResolved(b)
          /\ batches' = RemoveAt(batches, k)
          /\ images' = UpdatedImages(b)

(* the step settles one record of run k and the run stays in flight *)
PartialOf(k) ==
    /\ Len(batches') = Len(batches)
    /\ batches'[k] # batches[k]

(* the step is the end of an intake whose run has nothing to encode: the   *)
(* run resolves in the same task and swaps at once                         *)
EmptyRunSwap ==
    /\ intake.pc # "idle"
    /\ intake'.pc = "idle"
    /\ batches' = batches
    /\ LET b == NewBatch(intake.quality, intake.images, "intake")
       IN AllResolved(b) /\ images' = UpdatedImages(b)

(* the step is the task in which processFiles leaves its read loop *)
IntakeAppendStep == intake.pc = "reading" /\ intake'.pc = "idle"

(* the step makes a completed or error record visible that was not in the  *)
(* collection before                                                       *)
NewOutcomeVisible ==
    \E j \in DOMAIN images' :
        /\ images'[j].status \in {"completed", "error"}
        /\ images'[j] \notin Range(images)

(* the step is the end of an intake: it starts the intake's run, or, when  *)
(* the run has nothing to encode, swaps at once                            *)
AddStep ==
    \/ /\ Len(batches') = Len(batches) + 1
       /\ batches'[Len(batches')].owner = "intake"
    \/ EmptyRunSwap

(* the edges of the record state machine *)
StatusEdges ==
    {<<"pending", "compressing">>, <<"compressing", "completed">>,
     <<"compressing", "error">>, <<"completed", "compressing">>,
     <<"error", "compressing">>}

(* a record with a unique id in the collection *)
UniqueIn(imgs, id) == Cardinality({i \in DOMAIN imgs : imgs[i].id = id}) = 1

(* --------------------------------- C1 ---------------------------------- *)
(* C1: a record that is in the collection stays in it until Remove is      *)
(* invoked with its id; no quality change and no batch swap takes a record *)
(* out of the collection.                                                  *)
C1_StaysUntilRemoved ==
    [][(\A id \in IdsOf(images) : id \in IdsOf(images')) \/ RemoveStep]_vars

(* --------------------------------- C2 ---------------------------------- *)
(* C2: once every batch in flight has resolved, every record of the        *)
(* collection has qualityUsed equal to the global quality.                 *)
C2_QualityUsedIsGlobalWhenQuiet ==
    (batches = <<>> /\ intake.pc \in {"idle", "failed"})
        => \A i \in DOMAIN images : images[i].quality = compressionQuality

(* --------------------------------- C3 ---------------------------------- *)
(* C3: a record's compressedPayload is present iff its status is completed *)
C3_PayloadIffCompleted ==
    \A i \in DOMAIN images :
        (images[i].compressedBlob # NULL) <=> (images[i].status = "completed")

(* --------------------------------- C4 ---------------------------------- *)
(* C4: a record's errorMessage is present iff its status is error          *)
C4_ErrorIffErrorStatus ==
    \A i \in DOMAIN images :
        (images[i].error # UNDEFINED) <=> (images[i].status = "error")

(* --------------------------------- C5 ---------------------------------- *)
(* C5: within one batch no outcome is visible in the collection before     *)
(* every record of the batch has resolved: a step that settles one record  *)
(* of a run still in flight leaves the collection as it is, and a step     *)
(* that makes a new completed or error record visible is the swap of a run *)
(* whose records have all settled (or of a run that had nothing to encode), *)
(* publishing all its outcomes at once.                                    *)
C5_NoPartialPublication ==
    [][/\ \A k \in DOMAIN batches : PartialOf(k) => images' = images
       /\ NewOutcomeVisible => (EmptyRunSwap \/ \E k \in DOMAIN batches : SwapOf(k))]_vars

(* one record of a run has settled, another is still waiting, and the      *)
(* settled record is still shown as compressing                            *)
C5_Witness ==
    \E k \in DOMAIN batches :
      \E i, j \in DOMAIN batches[k].res :
        /\ batches[k].res[i] \in {"ok", "err"}
        /\ batches[k].res[j] = "wait"
        /\ \E m \in DOMAIN images :
              /\ images[m].id = batches[k].imgs[i].id
              /\ images[m].status = "compressing"

(* --------------------------------- C6 ---------------------------------- *)
(* C6: an encoder failure never rejects the batch: a run leaves the set of *)
(* runs in flight only by its swap, and that swap gives every record whose *)
(* encoder failed status error and every record whose encoder succeeded    *)
(* status completed with its own payload; while other records wait, the    *)
(* run stays in flight with the failure recorded, and no run whose records *)
(* have all settled is left waiting for its swap.                          *)
C6_FailureContained ==
    [][/\ Len(batches') < Len(batches) =>
            \E k \in DOMAIN batches :
               /\ SwapOf(k)
               /\ \A j \in DOMAIN batches[k].imgs :
                     /\ images'[j].id = batches[k].imgs[j].id
                     /\ batches[k].res[j] = "err" => images'[j].status = "error"
                     /\ batches[k].res[j] = "ok" =>
                           /\ images'[j].status = "completed"
                           /\ images'[j].compressedBlob =
                                 Some(EncodedBlob(batches[k].imgs[j].file,
                                                  batches[k].quality))
       /\ \A k \in DOMAIN batches :
             PartialOf(k) =>
                \E i \in DOMAIN batches[k].res, o \in {"ok", "err"} :
                   /\ batches[k].res[i] = "wait"
                   /\ batches' = [batches EXCEPT ![k].res[i] = o]
       /\ \A k \in DOMAIN batches' : ~AllResolved(batches'[k])]_vars

(* a swap has published a failed record next to a successful one *)
C6_Witness ==
    /\ batches = <<>>
    /\ \E i, j \in DOMAIN images :
          /\ images[i].status = "error"
          /\ images[j].status = "completed"

(* --------------------------------- C7 ---------------------------------- *)
(* C7: Add appends the new records at the end, keeps every existing record *)
(* in place, and runs the pipeline over exactly the records the collection *)
(* holds at that moment, at the global quality in force at that moment,    *)
(* also when a Remove or a quality change happened while the intake was    *)
(* reading its files.                                                      *)
C7_AddRunsOverCurrentCollection ==
    [][IntakeAppendStep =>
         LET n == Len(images)
             m == Len(intake.newImages) + 1
         IN /\ Len(images') = n + m
            /\ \A i \in 1..n : images'[i].id = images[i].id
            /\ Len(batches') = Len(batches) + 1
            /\ LET b == batches'[Len(batches')]
               IN /\ b.quality = compressionQuality
                  /\ [i \in DOMAIN b.imgs |-> b.imgs[i].id]
                        = [i \in DOMAIN images' |-> images'[i].id]]_vars

(* --------------------------------- C8 ---------------------------------- *)
(* C8: Add and Remove leave the compressedPayload, compressedSize and      *)
(* status of every previously completed record unchanged.                  *)
C8_AddRemoveKeepCompleted ==
    [][(AddStep \/ RemoveStep) =>
         \A i \in DOMAIN images, j \in DOMAIN images' :
            (images[i].status = "completed" /\ images'[j].id = images[i].id
                /\ UniqueIn(images, images[i].id))
              => /\ images'[j].compressedBlob = images[i].compressedBlob
                 /\ images'[j].compressedSize = images[i].compressedSize
                 /\ images'[j].status = images[i].status]_vars

(* --------------------------------- C9 ---------------------------------- *)
(* C9: Remove(id) deletes exactly one record, leaves every other record    *)
(* and their order unchanged, and starts no pipeline run.                  *)
C9_RemoveDeletesExactlyOne ==
    [][RemoveStep =>
         /\ Len(images') = Len(images) - 1
         /\ \E k \in DOMAIN images : images' = RemoveAt(images, k)
         /\ batches' = batches]_vars

(* --------------------------------- C10 --------------------------------- *)
(* C10: every observable change of a record's status follows one of the    *)
(* edges pending->compressing, compressing->completed, compressing->error, *)
(* completed->compressing, error->compressing; a record that keeps status  *)
(* completed keeps its payload.                                            *)
C10_StatusEdges ==
    [][\A i \in DOMAIN images, j \in DOMAIN images' :
          (images'[j].id = images[i].id /\ UniqueIn(images, images[i].id)
              /\ UniqueIn(images', images[i].id))
            => \/ <<images[i].status, images'[j].status>> \in StatusEdges
               \/ /\ images'[j].status = images[i].status
                  /\ images'[j].compressedBlob = images[i].compressedBlob]_vars

(* --------------------------------- C11 --------------------------------- *)
(* run b passes the record with this id to the encoder *)
Attempts(b, id) ==
    \E i \in DOMAIN b.imgs : b.imgs[i].id = id /\ b.res[i] # "skip"

(* C11: a record's qualityUsed is the quality of the most recently started *)
(* pipeline attempt for that record: while runs that attempt the record    *)
(* are in flight, the record shows the quality of the one started last,    *)
(* also after a run that started earlier has swapped.                      *)
C11_QualityUsedIsLastAttempt ==
    \A m \in DOMAIN images, k \in DOMAIN batches :
        (/\ Attempts(batches[k], images[m].id)
         /\ \A k2 \in DOMAIN batches :
               k2 > k => ~Attempts(batches[k2], images[m].id))
          => images[m].quality = batches[k].quality

(* --------------------------------- C12 --------------------------------- *)
(* the step starts a run of compressAllImages that has records to encode *)
RunStarted == Len(batches') = Len(batches) + 1

(* C12: a run at quality q leaves every record that has status error and   *)
(* qualityUsed = q as it is and does not pass it to the encoder.           *)
C12_ErrorRetriedOnlyAtOtherQuality ==
    [][RunStarted =>
         LET b == batches'[Len(batches')]
         IN \A m \in DOMAIN images :
               (images[m].status = "error" /\ images[m].quality = b.quality)
                 => /\ images[m] \in Range(images')
                    /\ ~Attempts(b, images[m].id)]_vars

(* --------------------------------- C13 --------------------------------- *)
CompletedOf(imgs) == SelectSeq(imgs, LAMBDA img : img.status = "completed")

(* the step offers a download *)
DownloadOffered == output' # NULL /\ output'[1].kind = "download"

(* the payloads a download holds *)
PayloadsOf(d) ==
    IF d.name = ZipName THEN {d.content.zip[i].blob : i \in DOMAIN d.content.zip}
    ELSE {d.content}

(* C13: no download is offered while zero records are completed; with      *)
(* exactly one completed record every export, Export-all too, offers the   *)
(* artifact of Export-one for that record (same payload, same filename);   *)
(* and a download holds payloads of completed records only.                *)
C13_ExportAllOfOneIsExportOne ==
    [][DownloadOffered =>
         LET done == CompletedOf(images)
         IN /\ done # <<>>
            /\ Len(done) = 1 => output' = Some(CardDownload(done[1]))
            /\ PayloadsOf(output'[1])
                   \subseteq {done[i].compressedBlob[1] : i \in DOMAIN done}
            /\ UNCHANGED images]_vars

(* a download was offered while exactly one of two records was completed *)
C13_Witness ==
    /\ output # NULL
    /\ output[1].kind = "download"
    /\ Len(images) = 2
    /\ Len(CompletedOf(images)) = 1

(* --------------------------------- C14 --------------------------------- *)
(* the filename derived for a record: compressed_<original-stem>.<ext> *)
DerivedName(img) ==
    <<"compressed_", StripExtension(Chars(img.file.name)), ".",
      CASE img.file.type = "image/jpeg" -> "jpg"
        [] img.file.type = "image/png" -> "png"
        [] img.file.type = "image/webp" -> "webp"
        [] OTHER -> "bin">>

(* C14: with more than one completed record the archive of Export-all has  *)
(* exactly one entry per completed record, under the record's derived      *)
(* filename and with its payload: as many entries as completed records,    *)
(* also when two records derive the same filename.                         *)
C14_ArchiveEntryPerCompleted ==
    [][(DownloadOffered /\ output'[1].name = ZipName) =>
         LET done == CompletedOf(images)
             zip == output'[1].content.zip
         IN /\ Len(done) > 1
            /\ Len(zip) = Len(done)
            /\ \A i \in DOMAIN done :
                  \E j \in DOMAIN zip :
                     /\ zip[j].name = DerivedName(done[i])
                     /\ zip[j].blob = done[i].compressedBlob[1]]_vars

(* --------------------------------- C15 --------------------------------- *)
(* every file entry of a dropped tree: all reads of every directory *)
RECURSIVE EntryFiles(_)
RECURSIVE ListedFiles(_)
RECURSIVE ReadsFiles(_)
EntryFiles(entry) ==
    IF entry.isFile THEN <<entry.file[1]>> ELSE ReadsFiles(entry.reads)

ListedFiles(entries) ==
    IF entries = <<>> THEN <<>>
    ELSE EntryFiles(Head(entries)) \o ListedFiles(Tail(entries))

ReadsFiles(reads) ==
    IF reads = <<>> THEN <<>>
    ELSE ListedFiles(Head(reads)) \o ReadsFiles(Tail(reads))

(* the files of a drop *)
RECURSIVE DroppedFiles(_)
DroppedFiles(items) ==
    IF items = <<>> THEN <<>>
    ELSE LET item == Head(items)
             here == IF item.entry # NULL THEN EntryFiles(item.entry[1])
                     ELSE IF item.file # NULL THEN <<item.file[1]>>
                     ELSE <<>>
         IN here \o DroppedFiles(Tail(items))

(* the step is the end of an intake that had files to collect or to read *)
IntakeEnds == intake.pc \in {"collecting", "reading"} /\ intake'.pc \in {"idle", "failed"}

(* C15: an intake appends as many records as its batch has files of type   *)
(* image/jpeg, image/png or image/webp: the files a drop hands on to       *)
(* processFiles are as many as the dropped files of these types, the       *)
(* intake ends with one record appended for each of them, and a gesture    *)
(* without any such file appends nothing.                                  *)
C15_RecordsEqualAcceptedFiles ==
    [][/\ intake'.pc = "collecting" =>
            Len(intake'.files) = Len(FilterAccepted(DroppedFiles(intake'.items)))
       /\ IntakeEnds =>
            Len(images') = Len(images) + Len(intake.newImages) + Len(intake.files)
       /\ (intake.pc = "idle" /\ intake'.pc = "idle" /\ ops' # ops) =>
            Len(images') <= Len(images)]_vars

(* --------------------------------- C16 --------------------------------- *)
(* C16: no two records of the collection have the same id, also after a    *)
(* batch that holds two files with the same name.                          *)
C16_IdsUnique ==
    \A i, j \in DOMAIN images : i # j => images[i].id # images[j].id

(* --------------------------------- C17 --------------------------------- *)
(* C17: every record with status completed has a compressedPayload and a   *)
(* compressedSize equal to the payload's byte length; every record with    *)
(* status error has no compressedPayload, no compressedSize and a          *)
(* non-empty errorMessage.                                                 *)
C17_CompletedAndErrorFields ==
    \A i \in DOMAIN images :
        /\ images[i].status = "completed" =>
              /\ images[i].compressedBlob # NULL
              /\ images[i].compressedSize = Some(images[i].compressedBlob[1].size)
        /\ images[i].status = "error" =>
              /\ images[i].compressedBlob = NULL
              /\ images[i].compressedSize = NULL
              /\ images[i].error # UNDEFINED
              /\ images[i].error[1] # ""

(* after a run at another quality than the first, one record is completed  *)
(* with the payload of that run and another is in error                    *)
C17_Witness ==
    \E i, j \in DOMAIN images :
        /\ images[i].status = "completed"
        /\ images[i].compressedBlob # NULL
        /\ images[i].compressedBlob[1].q # InitialQuality
        /\ images[j].status = "error"
        /\ images[j].quality # InitialQuality

(* --------------------------------- C18 --------------------------------- *)
(* C18: a record that Remove took out of the collection does not come back *)
(* unless its file is added again: the swap that ends a run puts no record *)
(* into the collection that was not in it when the swap began.             *)
C18_SwapPutsNothingBack ==
    [][(EmptyRunSwap \/ \E k \in DOMAIN batches : SwapOf(k))
          => IdsOf(images') \subseteq IdsOf(images)]_vars

(* --------------------------------- C19 --------------------------------- *)
IsSettled(img) == img.status \in {"completed", "error"}

(* C19: if every encoder call settles, every record that is in the         *)
(* collection is, then or later, in the collection with status completed   *)
(* or error; and while no run is in flight no record has status pending or *)
(* compressing.                                                            *)
C19_EveryRecordSettles ==
    /\ \A id \in AllIds :
          (id \in IdsOf(images)) ~>
             (\E i \in DOMAIN images : images[i].id = id /\ IsSettled(images[i]))
    /\ [](batches = <<>> => \A i \in DOMAIN images : IsSettled(images[i]))

(* the slider was moved, the run it started has ended, and a record that  *)
(* failed in it is in the collection                                       *)
C19_Witness ==
    /\ batches = <<>>
    /\ compressionQuality # InitialQuality
    /\ \E i \in DOMAIN images :
          images[i].status = "error" /\ images[i].quality = compressionQuality

(* --------------------------------- C20 --------------------------------- *)
(* C20: for a dropped directory the files tested against the type filter   *)
(* are all the file entries of the tree, at any depth and however the      *)
(* reader splits a listing across reads; the files handed on to            *)
(* processFiles are those of them that pass the filter.                    *)
C20_EveryFileOfTreeTested ==
    intake.pc = "collecting" =>
        /\ Range(TestedFiles(intake.items)) = Range(DroppedFiles(intake.items))
        /\ Range(intake.files)
              = {f \in Range(DroppedFiles(intake.items)) : IsAccepted(f)}

(* --------------------------------- C21 --------------------------------- *)
(* the fields of a record that are set at intake *)
OriginalOf(img) ==
    [id |-> img.id, file |-> img.file, originalUrl |-> img.originalUrl,
     originalSize |-> img.originalSize]

(* the intake fields of the records of imgs whose id is in ids, in order *)
OriginalsIn(imgs, ids) ==
    LET kept == SelectSeq(imgs, LAMBDA img : img.id \in ids)
    IN [i \in DOMAIN kept |-> OriginalOf(kept[i])]

(* C21: no step (Add of other records, Remove of another record, quality   *)
(* change, marking compressing, batch swap) changes the id, originalFile,  *)
(* originalPreview or original size of a record that stays in the          *)
(* collection, and the records that stay keep their relative order.        *)
C21_OriginalsAndOrderKept ==
    [][LET staying == IdsOf(images) \cap IdsOf(images')
       IN OriginalsIn(images', staying) = OriginalsIn(images, staying)]_vars

(* two records have been through a run started by the slider and its swap: *)
(* both are completed at a quality other than the first, in the order of   *)
(* their intake and with the fields of their files                         *)
C21_Witness ==
    /\ batches = <<>>
    /\ Len(images) = 2
    /\ images[1].id # images[2].id
    /\ images[1].id[2] <= images[2].id[2]
    /\ \A i \in DOMAIN images :
          /\ images[i].status = "completed"
          /\ images[i].quality # InitialQuality
          /\ OriginalOf(images[i]) = OriginalOf(NewImage(images[i].file,
                                                        images[i].id[2],
                                                        InitialQuality))

(* --------------------------------- C22 --------------------------------- *)
(* C22: after every intake (drop or file selection) the processing flag    *)
(* that disables the drop zone eventually returns to false, also when the  *)
(* read of a file's preview fails or the batch holds no accepted file.     *)
C22_ProcessingFlagClears == isProcessing ~> ~isProcessing

(* --------------------------------- C23 --------------------------------- *)
(* the responses that the caches of the storage hold for the request *)
CachedEntries(storage, request) ==
    UNION {{storage[k].entries[i].response :
               i \in {i \in DOMAIN storage[k].entries :
                         RequestMatches(storage[k].entries[i].request, request)}} :
           k \in DOMAIN storage}

(* the entries of the current-version cache *)
CurrentCache(storage) ==
    UNION {Range(storage[k].entries) :
              k \in {k \in DOMAIN storage : storage[k].name = CACHE_NAME}}

(* C23: for every fetch event the worker handles: when its cache lookup    *)
(* resolves and the caches hold a match for the request, the event is      *)
(* answered with the cached entry and no network request is made;          *)
(* otherwise a network request is made and the event is answered with what *)
(* the network gives; and while the worker handles fetch events the cache  *)
(* storage changes only by an entry of the current-version cache that      *)
(* holds the network response of an event, with status 200 and type basic. *)
C23_CacheFirstThenNetwork ==
    [][/\ \A e \in DOMAIN fetchEvents :
            LET ev == fetchEvents[e]
                after == fetchEvents'[e]
            IN /\ (ev.pc = "matching" /\ after.pc # "matching") =>
                     IF CachedEntries(caches, ev.request) # {}
                     THEN /\ after.response # NULL
                          /\ after.response[1] \in CachedEntries(caches, ev.request)
                          /\ ~after.network
                          /\ after.responseToCache = NULL
                     ELSE /\ after.network
                          /\ after.response = NULL
               /\ (ev.response = NULL /\ after.response # NULL /\ ev.network) =>
                     /\ after.response[1]
                          \in NetworkResponses(ev.request.url) \cup {NetworkError}
                     /\ after.responseToCache # NULL =>
                           /\ after.responseToCache = after.response
                           /\ after.response[1].status = 200
                           /\ after.response[1].type = "basic"
               /\ ev.response # NULL =>
                     /\ after.response = ev.response
                     /\ after.network = ev.network
                     /\ after.responseToCache \in {NULL, ev.responseToCache}
       /\ (worker = "activated" /\ caches' # caches) =>
            /\ \A k \in DOMAIN caches' :
                  caches'[k].name # CACHE_NAME =>
                     k \in DOMAIN caches /\ caches'[k] = caches[k]
            /\ \A en \in CurrentCache(caches') \ CurrentCache(caches) :
                  /\ en.response.status = 200
                  /\ en.response.type = "basic"
                  /\ \E e \in DOMAIN fetchEvents :
                        /\ fetchEvents[e].request = en.request
                        /\ fetchEvents[e].network
                        /\ fetchEvents[e].response = Some(en.response)]_vars

(* an event for an asset that was not in the caches was answered by the    *)
(* network with status 200 and type basic, the response was stored, and a  *)
(* later event for the same request was answered with that entry without a *)
(* network request                                                         *)
C23_Witness ==
    \E e1, e2 \in DOMAIN fetchEvents :
        /\ e1 < e2
        /\ fetchEvents[e1].request = fetchEvents[e2].request
        /\ fetchEvents[e1].network
        /\ fetchEvents[e1].response # NULL
        /\ fetchEvents[e1].response[1].status = 200
        /\ fetchEvents[e1].responseToCache = NULL
        /\ ~fetchEvents[e2].network
        /\ fetchEvents[e2].response = fetchEvents[e1].response
        /\ [request |-> fetchEvents[e1].request,
            response |-> fetchEvents[e1].response[1]] \in CurrentCache(caches)

====
